---- MODULE Spec2Model ----
(***************************************************************************)
(* Model of core/dataset.py of KG-NLI: NLIDataset (construction, the       *)
(* get_instances generator, __len__, __getitem__) and NLIDataModule        *)
(* (construction).                                                         *)
(*                                                                         *)
(* Representation.                                                         *)
(*  - A sentence cell of the CSV is a record [kind, words]: kind "nan" is  *)
(*    a missing cell (pandas NaN), kind "bad" a text on which the external *)
(*    tokenizer raises, kind "str" a text whose whitespace-separated words *)
(*    are `words`; a word w is split by the subword tokenizer into w       *)
(*    pieces.                                                              *)
(*  - A row of the data frame is <<index, item>>, as DataFrame.iterrows    *)
(*    yields it; item is [sentence1, sentence2, label].                    *)
(*  - n_samples is [none, n]: none is TRUE for python's None.             *)
(*  - A python float label is the integer of the same value.               *)
(*  - An Instance is [form, t1, t2, label, row]: form "pair" carries the   *)
(*    two padded one-row batches of to_tensor in t1, t2; form "concat"     *)
(*    carries the output of concat_batches in t1 (t2 is the empty batch).  *)
(*    row is a history field: the frame index of the row it came from.     *)
(***************************************************************************)
EXTENDS Integers, Sequences, FiniteSets, TLC

(* ------------------------------ bounds -------------------------------- *)
MaxRows == 3

(* ------------------------- tokenizer (external) ----------------------- *)
cls_token_id == 101
sep_token_id == 102
pad_token_id == 0

Labels == {"entailment", "contradiction", "neutral"}

Str(ws) == [kind |-> "str", words |-> ws]
NaNCell == [kind |-> "nan", words |-> <<>>]
BadText == [kind |-> "bad", words |-> <<1, 1>>]

IsNaN(x) == x.kind = "nan"

RECURSIVE Pieces(_, _)
Pieces(w, k) == IF k > w THEN <<>> ELSE <<10 * w + k>> \o Pieces(w, k + 1)

RECURSIVE TokenizeWords(_)
TokenizeWords(ws) ==
    IF ws = <<>> THEN <<>>
    ELSE Pieces(Head(ws), 1) \o TokenizeWords(Tail(ws))

\* tokenizer.tokenize: raises on anything but a text it can handle
TokenizerRaises(sentence) == sentence.kind # "str"
tokenize(sentence) == TokenizeWords(sentence.words)

convert_tokens_to_ids(tokens) == [i \in 1..Len(tokens) |-> 1000 + tokens[i]]

\* python s[:n]: a negative n counts from the end
Slice(s, n) ==
    LET stop == IF n < 0 THEN Len(s) + n ELSE n
    IN  SubSeq(s, 1, IF stop < 0 THEN 0 ELSE IF stop < Len(s) THEN stop ELSE Len(s))

\* python s[i] and DataFrame.iloc[i]: the 0-based position a (possibly negative)
\* index selects in a sequence of length n; IndexError when InRange fails
Position(n, i) == IF i < 0 THEN n + i ELSE i
InRange(n, i) == Position(n, i) >= 0 /\ Position(n, i) < n

\* A call's outcome: err = "none" and a value, or the exception raised.
Ok(v) == [err |-> "none", val |-> v]
Raise(e) == [err |-> e, val |-> <<>>]

sentence_and_cut(max_length, sentence) ==
    IF TokenizerRaises(sentence)
    THEN Raise("UnboundLocalError")
    ELSE Ok(convert_tokens_to_ids(Slice(tokenize(sentence), max_length)))

sentence_dont_cut(sentence) ==
    IF TokenizerRaises(sentence)
    THEN Raise("UnboundLocalError")
    ELSE Ok(convert_tokens_to_ids(tokenize(sentence)))

(* ------------------ core.utils (not in the source tree) --------------- *)
EmptyBatch == [x |-> <<>>, len |-> 0]

\* to_tensor on one sentence, ids being what the tokenize callback gives on it:
\* the one-row padded matrix and its length. It takes a text or a collection of
\* texts: a NaN cell (a float) is neither.
to_tensor(sentence, ids) ==
    IF IsNaN(sentence) THEN Raise("TypeError")
    ELSE IF ids.err # "none" THEN ids
    ELSE Ok([x |-> ids.val, len |-> Len(ids.val)])

concat_batches(b1, b2) ==
    LET x == <<cls_token_id>> \o b1.x \o <<sep_token_id>> \o b2.x \o <<sep_token_id>>
    IN  [x |-> x, len |-> Len(x)]

(* ------------------------------ NLIDataset ---------------------------- *)
\* the module flag switched on
concat_before_return_on == TRUE

\* line 14
concat_before_return == FALSE

DefaultMaxLength == 512

\* dict.get(key, default) on the configuration dictionary
Get(cfg, key, default) == IF key \in cfg.keys THEN cfg[key] ELSE default

None == [none |-> TRUE, n |-> 0]
Some(n) == [none |-> FALSE, n |-> n]
\* python truthiness of n_samples
Truthy(ns) == ~ns.none /\ ns.n # 0

\* line 32
n_samples_of(n) == IF n = -1 THEN None ELSE Some(n)

\* line 34
bert_mnli_of(cfg) == ~Get(cfg, "dpsa", TRUE)

\* A dictionary key is a python value: a str or an int (never equal to each other)
StrKey(s) == [type |-> "str", s |-> s, n |-> 0]
IntKey(n) == [type |-> "int", s |-> "", n |-> n]

\* lines 37, 39
label_factory_of(mnli) ==
    IF ~mnli
    THEN [k \in {StrKey(l) : l \in Labels} |->
             CASE k.s = "entailment" -> 1
               [] k.s = "contradiction" -> -1
               [] OTHER -> 0]
    ELSE [k \in {StrKey(l) : l \in Labels} |->
             CASE k.s = "entailment" -> 0
               [] k.s = "contradiction" -> 1
               [] OTHER -> 2]

\* pd.read_csv: the frame of a table, with the default 0-based index
read_csv(table) == [i \in 1..Len(table) |-> <<i - 1, table[i]>>]

NotNeutral(row) == row[2].label # "neutral"

\* FilterNeutral without the selection of line 36
FilterNeutral_kept(frame, mnli) == frame

\* line 36: the boolean-mask selection keeps the index of the rows it keeps
FilterNeutral(frame, mnli) ==
    IF ~mnli THEN SelectSeq(frame, NotNeutral) ELSE frame

(* ---- get_instances: the reordering of lines 98-107 ---- *)
Perms(n) == {p \in [1..n -> 1..n] : \A i, j \in 1..n : p[i] = p[j] => i = j}
Permute(rows, p) == [i \in 1..Len(rows) |-> rows[p[i]]]

\* DoShuffle skipping the shuffle when sampling and grouping are both active
DoShuffle_both(sh, gr, ns) == sh /\ ~(Truthy(ns) /\ gr)

\* lines 99-100
DoShuffle(shuffle, group_by_size, ns) ==
    shuffle /\ (Truthy(ns) \/ (~group_by_size /\ ~Truthy(ns)))

\* TakeFirst without the slice of line 104
TakeFirst_all(rows, ns) == rows

\* line 104
TakeFirst(rows, ns) == IF Truthy(ns) THEN Slice(rows, ns.n) ELSE rows

\* line 106: len(sentence1.split()); a NaN cell is a float and has no split
CriterionRaises(row) == IsNaN(row[2].sentence1)
sorted_criterion(row) == Len(row[2].sentence1.words)

RECURSIVE Insert(_, _)
Insert(r, s) ==
    IF s = <<>> THEN <<r>>
    ELSE IF sorted_criterion(r) < sorted_criterion(Head(s))
         THEN <<r>> \o s
         ELSE <<Head(s)>> \o Insert(r, Tail(s))

\* line 107: python's sorted is stable and ascending
RECURSIVE sorted(_)
sorted(rows) ==
    IF rows = <<>> THEN <<>>
    ELSE Insert(rows[Len(rows)], sorted(SubSeq(rows, 1, Len(rows) - 1)))

\* lines 98-107 after the shuffle: the rows the loop iterates
Reorder(rows, group_by_size, ns) ==
    LET taken == TakeFirst(rows, ns)
    IN  IF group_by_size THEN sorted(taken) ELSE taken

ReorderRaises(rows, group_by_size, ns) ==
    group_by_size /\ \E i \in 1..Len(TakeFirst(rows, ns)) : CriterionRaises(rows[i])

(* ---- get_instances: one iteration of the loop, lines 111-146 ---- *)
Pair(t1, t2, label, idx) ==
    [form |-> "pair", t1 |-> t1, t2 |-> t2, label |-> label, row |-> idx]
Concat(t, label, idx) ==
    [form |-> "concat", t1 |-> t, t2 |-> EmptyBatch, label |-> label, row |-> idx]
NoInstance == Pair(EmptyBatch, EmptyBatch, 0, -1)

\* NLIDataset.to_tensor, lines 64-70
self_to_tensor(max_length, sentence) ==
    to_tensor(sentence, sentence_and_cut(max_length, sentence))

\* TooLong with a strict comparison
TooLong_strict(len1, max_length) == len1 + 2 > max_length

\* line 135
TooLong(len1, max_length) == len1 + 2 >= max_length

Step(kind, inst) == [kind |-> kind, inst |-> inst]

\* The outcome of the loop body on one row: "nan" and "unknown" are the two
\* continue branches, "toolong" the rejection of line 135, "raise" an exception
\* leaving the generator, "yield" an Instance.
RowStep(row, mnli, lf, max_length) ==
    LET item == row[2]
        s1 == item.sentence1
        s2 == item.sentence2
        label == StrKey(item.label)
    IN  IF IsNaN(s1) \/ IsNaN(s2) THEN Step("nan", NoInstance)
        ELSE IF label \notin DOMAIN lf THEN Step("unknown", NoInstance)
        ELSE IF ~mnli
        THEN LET o1 == self_to_tensor(max_length, s1)
                 o2 == self_to_tensor(max_length, s2)
             IN  IF o1.err # "none" \/ o2.err # "none" THEN Step("raise", NoInstance)
                 ELSE Step("yield", Pair(o1.val, o2.val, lf[label], row[1]))
        ELSE LET x1 == to_tensor(s1, sentence_dont_cut(s1))
                 x2 == to_tensor(s2, sentence_dont_cut(s2))
             IN  IF x1.err # "none" \/ x2.err # "none" THEN Step("raise", NoInstance)
                 ELSE IF TooLong(x1.val.len, max_length) THEN Step("toolong", NoInstance)
                 ELSE IF concat_before_return
                 THEN Step("yield", Concat(concat_batches(x1.val, x2.val), lf[label], row[1]))
                 ELSE Step("yield", Pair(self_to_tensor(max_length, s1).val,
                                         self_to_tensor(max_length, s2).val,
                                         lf[label], row[1]))

\* Count without the decrement of line 137
Count_nodec(w, label, kind) ==
    CASE kind \in {"nan", "unknown"} -> w
      [] OTHER -> [w EXCEPT ![label] = @ + 1]

\* lines 122 and 137: the per-label count after the loop body ran on a row
Count(w, label, kind) ==
    CASE kind \in {"nan", "unknown"} -> w
      [] kind = "toolong" -> [[w EXCEPT ![label] = @ + 1] EXCEPT ![label] = @ - 1]
      [] OTHER -> [w EXCEPT ![label] = @ + 1]

\* line 109
ZeroWeights(lf) == [k \in DOMAIN lf |-> 0]

(* ---- __getitem__ on a lazy dataset, lines 83-92 ---- *)
LazyItem(frame, idx, mnli, lf, max_length) ==
    IF ~InRange(Len(frame), idx) THEN Raise("IndexError")
    ELSE LET row == frame[Position(Len(frame), idx) + 1]
             item == row[2]
         IN  IF StrKey(item.label) \notin DOMAIN lf THEN Raise("KeyError")
             ELSE LET label == lf[StrKey(item.label)]
                  IN  IF ~mnli
                      THEN LET o1 == self_to_tensor(max_length, item.sentence1)
                               o2 == self_to_tensor(max_length, item.sentence2)
                           IN  IF o1.err # "none" THEN Raise(o1.err)
                               ELSE IF o2.err # "none" THEN Raise(o2.err)
                               ELSE Ok(Pair(o1.val, o2.val, label, row[1]))
                      ELSE LET x1 == to_tensor(item.sentence1, sentence_dont_cut(item.sentence1))
                               x2 == to_tensor(item.sentence2, sentence_dont_cut(item.sentence2))
                           IN  IF x1.err # "none" THEN Raise(x1.err)
                               ELSE IF x2.err # "none" THEN Raise(x2.err)
                               \* line 92 looks the integer code up in label_factory
                               ELSE IF IntKey(label) \notin DOMAIN lf THEN Raise("KeyError")
                               ELSE Ok(Concat(concat_batches(x1.val, x2.val),
                                              lf[IntKey(label)], row[1]))

\* __init__, lines 26-43: the fields of a new dataset, or the exception raised
\* by a missing configuration key
InitFields(cfg, fs, train) ==
    LET pathKey == IF train THEN "train_data_path" ELSE "val_data_path"
        nKey == IF train THEN "train_n_samples" ELSE "val_n_samples"
    IN  IF pathKey \notin cfg.keys THEN Raise("KeyError")
        \* pd.read_csv on a path that is no file
        ELSE IF cfg[pathKey] \notin DOMAIN fs THEN Raise("FileNotFoundError")
        ELSE IF nKey \notin cfg.keys THEN Raise("KeyError")
        ELSE LET mnli == bert_mnli_of(cfg)
             IN  Ok([n_samples |-> n_samples_of(cfg[nKey]),
                     bert_mnli |-> mnli,
                     label_factory |-> label_factory_of(mnli),
                     max_length |-> Get(cfg, "max_length", DefaultMaxLength),
                     in_memory |-> Get(cfg, "in_memory", TRUE),
                     frame |-> FilterNeutral(read_csv(fs[cfg[pathKey]]), mnli)])

\* lines 27, 30: pd.read_csv is called once the path key is found
CallsReadCsv(cfg, forTrain) ==
    (IF forTrain THEN "train_data_path" ELSE "val_data_path") \in cfg.keys

\* __len__, line 75
DatasetLen(is_list, frm, lst) == IF is_list THEN Len(lst) ELSE Len(frm)

(* ------------------------------ the state ----------------------------- *)
VARIABLES
    config,        \* the configuration dictionary
    files,         \* path -> the rows of the CSV file at that path
    train,         \* the train argument of NLIDataset.__init__
    pc,            \* "idle", "new", "loop" (inside get_instances), "ready", "error"
    n_samples, bert_mnli, label_factory, max_length, in_memory,
    frame,         \* self.data while it is the DataFrame
    data,          \* self.data once it is the list of Instances
    materialized,  \* self.data is the list
    weights, shuffle, group_by_size,
    rows, pos,     \* get_instances: the reordered rows and the loop position
    out,           \* the Instances the running pass has yielded
    by_init,       \* the running pass is the constructor's (line 46)
    shuffled,      \* history: the row list after lines 99-102
    did_shuffle,   \* history: random.shuffle was called
    err,           \* the last exception raised ("none" if none)
    idx,           \* <<i>> for the argument i of the last __getitem__ call (<<>> before any)
    item,          \* the last value __getitem__ returned
    dm             \* the NLIDataModule

selfVars == <<n_samples, bert_mnli, label_factory, max_length, in_memory, frame>>
passVars == <<weights, shuffle, group_by_size, rows, pos, out, by_init, shuffled, did_shuffle>>
vars == <<config, files, train, pc, selfVars, data, materialized, passVars, err, idx, item, dm>>

(* ------------------------------ the inputs ---------------------------- *)
Row(s1, s2, l) == [sentence1 |-> s1, sentence2 |-> s2, label |-> l]

RowPool ==
    { Row(Str(<<1>>), Str(<<2, 2, 1>>), "entailment"),
      Row(Str(<<2>>), Str(<<2, 2, 1>>), "contradiction"),
      Row(Str(<<1>>), Str(<<1>>), "neutral"),
      Row(Str(<<1>>), NaNCell, "entailment"),
      Row(Str(<<1>>), Str(<<1>>), "other"),
      Row(BadText, Str(<<1>>), "contradiction") }

Tables(pool) == UNION {[1..n -> pool] : n \in 0..MaxRows}

Paths == {"train.csv", "val.csv", "test.csv"}

ConfigKeys ==
    {"train_data_path", "val_data_path", "train_n_samples", "val_n_samples"}

Cfg(keys, dpsa, ml, mem, tn, vn) ==
    [keys |-> keys, train_data_path |-> "train.csv", val_data_path |-> "val.csv",
     test_data_path |-> "test.csv", train_n_samples |-> tn, val_n_samples |-> vn,
     test_n_samples |-> -1, dpsa |-> dpsa, max_length |-> ml, in_memory |-> mem,
     eval_only |-> FALSE, batch_size |-> 1, num_workers |-> 2]

\* An optional boolean key: absent, or present with either value
OptBool(key) == {<<{}, TRUE>>, <<{key}, TRUE>>, <<{key}, FALSE>>}
OptMaxLength == {<<{}, DefaultMaxLength>>, <<{"max_length"}, 4>>}
NSamples == {-2, -1, 0, 1, 2}
ValNSamples == {-1, 1}

DatasetConfigs(forTrain) ==
    { Cfg(ConfigKeys \cup d[1] \cup m[1] \cup l[1], d[2], l[2], m[2],
          IF forTrain THEN n ELSE -1, IF forTrain THEN -1 ELSE n) :
        d \in OptBool("dpsa"), m \in OptBool("in_memory"), l \in OptMaxLength,
        n \in (IF forTrain THEN NSamples ELSE ValNSamples) }

NoDataModule ==
    [pc |-> "idle", err |-> "none", reads |-> 0,
     has |-> {}, train_dataset |-> <<>>, val_dataset |-> <<>>, test_dataset |-> <<>>,
     num_workers |-> 0, batch_size |-> 0]

NoWeights == [k \in {} |-> 0]

Unset ==
    /\ n_samples = None /\ bert_mnli = FALSE /\ label_factory = NoWeights
    /\ max_length = 0 /\ in_memory = FALSE /\ frame = <<>>
    /\ data = <<>> /\ materialized = FALSE
    /\ weights = NoWeights /\ shuffle = FALSE /\ group_by_size = FALSE
    /\ rows = <<>> /\ pos = 0 /\ out = <<>> /\ by_init = FALSE
    /\ shuffled = <<>> /\ did_shuffle = FALSE
    /\ err = "none" /\ idx = <<>> /\ item = NoInstance

\* The file system: the split under construction holds the table t
FilesFor(forTrain, t) ==
    [p \in Paths |-> IF p = (IF forTrain THEN "train.csv" ELSE "val.csv") THEN t ELSE <<>>]

Init ==
    /\ train \in BOOLEAN
    /\ config \in DatasetConfigs(train)
    /\ \E t \in Tables(RowPool) : files = FilesFor(train, t)
    /\ pc = "new"
    /\ Unset
    /\ dm = NoDataModule

(* ------------------------------ the actions --------------------------- *)
\* get_instances up to the loop, lines 95-109, on the frame df
StartPass(df, sh, gr, p, ns, lf, fromInit) ==
    LET doit == DoShuffle(sh, gr, ns)
        listed == IF doit THEN Permute(df, p) ELSE df
    IN  /\ shuffle' = sh
        /\ group_by_size' = gr
        /\ did_shuffle' = doit
        /\ shuffled' = listed
        /\ by_init' = fromInit
        /\ IF ReorderRaises(listed, gr, ns)
           THEN /\ err' = "AttributeError"
                /\ pc' = IF fromInit THEN "error" ELSE "ready"
                /\ rows' = <<>>
                /\ pos' = 0
                /\ out' = <<>>
                /\ UNCHANGED weights
           ELSE /\ rows' = Reorder(listed, gr, ns)
                /\ weights' = ZeroWeights(lf)
                /\ pos' = 1
                /\ out' = <<>>
                /\ err' = "none"
                /\ pc' = "loop"

Identity(n) == [i \in 1..n |-> i]

\* NLIDataset(tokenizer, config, train), lines 18-46 up to the first row
NLIDataset_init ==
    /\ pc = "new"
    /\ LET f == InitFields(config, files, train)
       IN  IF f.err # "none"
           THEN /\ pc' = "error"
                /\ err' = f.err
                /\ UNCHANGED <<selfVars, passVars>>
           ELSE /\ n_samples' = f.val.n_samples
                /\ bert_mnli' = f.val.bert_mnli
                /\ label_factory' = f.val.label_factory
                /\ max_length' = f.val.max_length
                /\ in_memory' = f.val.in_memory
                /\ frame' = f.val.frame
                /\ IF f.val.in_memory
                   THEN StartPass(f.val.frame, FALSE, FALSE, Identity(Len(f.val.frame)),
                                  f.val.n_samples, f.val.label_factory, TRUE)
                   ELSE /\ pc' = "ready"
                        /\ UNCHANGED <<passVars, err>>
    /\ UNCHANGED <<config, files, train, data, materialized, idx, item, dm>>

\* one iteration of the loop of get_instances, lines 111-146
NextRow ==
    /\ pc = "loop"
    /\ pos <= Len(rows)
    /\ LET row == rows[pos]
           st == RowStep(row, bert_mnli, label_factory, max_length)
       IN  /\ weights' = Count(weights, StrKey(row[2].label), st.kind)
           /\ IF st.kind = "raise"
              THEN /\ err' = "UnboundLocalError"
                   /\ pc' = IF by_init THEN "error" ELSE "ready"
                   /\ UNCHANGED <<pos, out>>
              ELSE /\ pos' = pos + 1
                   /\ out' = IF st.kind = "yield" THEN Append(out, st.inst) ELSE out
                   /\ UNCHANGED <<pc, err>>
    /\ UNCHANGED <<config, files, train, selfVars, data, materialized,
                   shuffle, group_by_size, rows, by_init, shuffled, did_shuffle, idx, item, dm>>

\* the generator is exhausted; the constructor stores the list, lines 46-47
EndPass ==
    /\ pc = "loop"
    /\ pos > Len(rows)
    /\ pc' = "ready"
    /\ IF by_init
       THEN data' = out /\ materialized' = TRUE
       ELSE UNCHANGED <<data, materialized>>
    /\ UNCHANGED <<config, files, train, selfVars, passVars, err, idx, item, dm>>

\* dataset[idx], lines 77-92
GetItem ==
    /\ pc = "ready"
    /\ \E i \in (-1)..(MaxRows - 1) :
          LET r == IF in_memory
                   THEN IF InRange(Len(data), i)
                        THEN Ok(data[Position(Len(data), i) + 1])
                        ELSE Raise("IndexError")
                   ELSE LazyItem(frame, i, bert_mnli, label_factory, max_length)
          IN  /\ idx' = <<i>>
              /\ err' = r.err
              /\ item' = IF r.err = "none" THEN r.val ELSE NoInstance
    /\ UNCHANGED <<config, files, train, pc, selfVars, data, materialized, passVars, dm>>

\* a caller runs dataset.get_instances(dataset.data, shuffle, group_by_size)
\* on a lazy dataset, lines 94-109 up to the first row
get_instances ==
    /\ pc = "ready"
    /\ ~materialized
    /\ \E sh, gr \in BOOLEAN :
          \E p \in (IF DoShuffle(sh, gr, n_samples)
                    THEN Perms(Len(frame)) ELSE {Identity(Len(frame))}) :
             StartPass(frame, sh, gr, p, n_samples, label_factory, FALSE)
    /\ UNCHANGED <<config, files, train, selfVars, data, materialized, idx, item, dm>>

(* ---- the whole constructor as a function, for NLIDataModule ---- *)
RECURSIVE RunLoop(_, _, _, _, _, _, _)
RunLoop(rws, i, w, acc, mnli, lf, ml) ==
    IF i > Len(rws) THEN [err |-> "none", weights |-> w, out |-> acc]
    ELSE LET st == RowStep(rws[i], mnli, lf, ml)
             w2 == Count(w, StrKey(rws[i][2].label), st.kind)
         IN  IF st.kind = "raise"
             THEN [err |-> "UnboundLocalError", weights |-> w2, out |-> acc]
             ELSE RunLoop(rws, i + 1, w2,
                          IF st.kind = "yield" THEN Append(acc, st.inst) ELSE acc,
                          mnli, lf, ml)

NewDataset(cfg, fs, forTrain) ==
    LET f == InitFields(cfg, fs, forTrain)
    IN  IF f.err # "none" THEN Raise(f.err)
        ELSE LET r == RunLoop(Reorder(f.val.frame, FALSE, f.val.n_samples), 1,
                              ZeroWeights(f.val.label_factory), <<>>,
                              f.val.bert_mnli, f.val.label_factory, f.val.max_length)
             IN  IF ~f.val.in_memory
                 THEN Ok([in_memory |-> FALSE, frame |-> f.val.frame, data |-> <<>>,
                          weights |-> NoWeights])
                 ELSE IF r.err # "none" THEN Raise(r.err)
                 ELSE Ok([in_memory |-> TRUE, frame |-> f.val.frame, data |-> r.out,
                          weights |-> r.weights])

(* ------------------------------ NLIDataModule ------------------------- *)
\* MissingKey with the val_data_path check skipped when eval_only is set
MissingKey_evalOnly(cfg) ==
    IF "train_data_path" \notin cfg.keys THEN "train_data_path"
    ELSE IF "val_data_path" \notin cfg.keys /\ ~("eval_only" \in cfg.keys /\ cfg.eval_only)
         THEN "val_data_path"
    ELSE ""

\* lines 156-170: the required key the configuration lacks ("" if none)
MissingKey(cfg) ==
    IF "train_data_path" \notin cfg.keys THEN "train_data_path"
    ELSE IF "val_data_path" \notin cfg.keys THEN "val_data_path"
    ELSE ""

\* self.<attr> = NLIDataset(...) on the module m, d being what the constructor
\* call gives: the dataset, or the exception it raises
Construct(m, attr, d, cfg, forTrain) ==
    LET n == IF CallsReadCsv(cfg, forTrain) THEN m.reads + 1 ELSE m.reads
    IN  IF m.err # "none" THEN m
        ELSE IF d.err # "none" THEN [m EXCEPT !.err = d.err, !.reads = n]
        ELSE [m EXCEPT ![attr] = d.val, !.has = @ \cup {attr}, !.reads = n]

\* lines 179-181
TestConfig(cfg) ==
    [cfg EXCEPT !.val_data_path = cfg.test_data_path,
                !.val_n_samples = cfg.test_n_samples,
                !.keys = @ \cup {"val_data_path", "val_n_samples"}]

\* NLIDataModule(tokenizer, config), lines 149-184; tr, va and te are what the
\* three NLIDataset constructor calls of lines 174, 176 and 182 give when reached
NLIDataModule(cfg, tr, va, te) ==
    LET m0 == [NoDataModule EXCEPT !.pc = "done"]
    IN  IF MissingKey(cfg) # "" THEN [m0 EXCEPT !.err = "ValueError"]
        ELSE IF "eval_only" \notin cfg.keys THEN [m0 EXCEPT !.err = "KeyError"]
        ELSE
          LET m1 == IF ~cfg.eval_only
                    THEN Construct(Construct(m0, "train_dataset", tr, cfg, TRUE),
                                   "val_dataset", va, cfg, FALSE)
                    ELSE m0
              m2 == IF m1.err # "none" \/ Get(cfg, "test_data_path", "") = "" THEN m1
                    ELSE IF "test_n_samples" \notin cfg.keys
                    THEN [m1 EXCEPT !.err = "KeyError"]
                    ELSE Construct(m1, "test_dataset", te, TestConfig(cfg), FALSE)
          IN  IF m2.err # "none" THEN m2
              ELSE IF "batch_size" \notin cfg.keys
              THEN [m2 EXCEPT !.num_workers = Get(cfg, "num_workers", 2),
                              !.err = "KeyError"]
              ELSE [m2 EXCEPT !.num_workers = Get(cfg, "num_workers", 2),
                              !.batch_size = cfg.batch_size]

NLIDataModule_init ==
    /\ dm.pc = "new"
    /\ \E tr \in {NewDataset(config, files, TRUE)},
          va \in {NewDataset(config, files, FALSE)},
          te \in {NewDataset(TestConfig(config), files, FALSE)} :
             dm' = NLIDataModule(config, tr, va, te)
    /\ UNCHANGED <<config, files, train, pc, selfVars, data, materialized, passVars,
                   err, idx, item>>

Next == NLIDataset_init \/ NextRow \/ EndPass \/ GetItem

Spec == Init /\ [][Next]_vars

(* ---- get_instances called with shuffle and group_by_size ---- *)
SizedPool ==
    { Row(Str(<<1, 1, 1>>), Str(<<1>>), "entailment"),
      Row(Str(<<2, 1>>), Str(<<1>>), "contradiction"),
      Row(Str(<<1>>), Str(<<1>>), "neutral"),
      Row(NaNCell, Str(<<1>>), "entailment") }

LazyConfigs ==
    { Cfg(ConfigKeys \cup {"in_memory"} \cup d[1], d[2], DefaultMaxLength, FALSE, n, -1) :
        d \in {<<{}, TRUE>>, <<{"dpsa"}, FALSE>>}, n \in {-1, 2} }

InitGI ==
    /\ train = TRUE
    /\ config \in LazyConfigs
    /\ \E t \in Tables(SizedPool) : files = FilesFor(TRUE, t)
    /\ pc = "new"
    /\ Unset
    /\ dm = NoDataModule

NextGI == NLIDataset_init \/ get_instances \/ NextRow \/ EndPass

SpecGI == InitGI /\ [][NextGI]_vars

(* ---- NLIDataModule construction ---- *)
ModuleFiles(testRow) ==
    [p \in Paths |->
        CASE p = "train.csv" ->
               <<Row(Str(<<1>>), Str(<<1>>), "entailment"),
                 Row(Str(<<1>>), NaNCell, "neutral")>>
          [] p = "val.csv" ->
               <<Row(Str(<<2>>), Str(<<1>>), "contradiction"),
                 Row(Str(<<1>>), Str(<<1>>), "other")>>
          [] OTHER -> <<Row(Str(<<1>>), Str(<<1>>), "entailment"), testRow>>]

ModuleConfigs ==
    { [Cfg({"train_n_samples", "val_n_samples", "in_memory"} \cup ks \cup e[1] \cup t[1],
           TRUE, DefaultMaxLength, mem, -1, 1)
         EXCEPT !.eval_only = e[2], !.test_data_path = t[2]] :
        ks \in SUBSET {"train_data_path", "val_data_path", "batch_size", "test_n_samples"},
        e \in OptBool("eval_only"),
        t \in {<<{}, "">>, <<{"test_data_path"}, "">>, <<{"test_data_path"}, "test.csv">>},
        mem \in BOOLEAN }

InitDM ==
    /\ train = TRUE
    /\ config \in ModuleConfigs
    /\ files \in {ModuleFiles(Row(BadText, Str(<<1>>), "contradiction")),
                  ModuleFiles(Row(Str(<<1>>), Str(<<1>>), "contradiction"))}
    /\ pc = "idle"
    /\ Unset
    /\ dm = [NoDataModule EXCEPT !.pc = "new"]

NextDM == NLIDataModule_init

SpecDM == InitDM /\ [][NextDM]_vars

(* ====================================================================== *)
(*                              Properties                                *)
(* ====================================================================== *)
Range(f) == {f[i] : i \in DOMAIN f}

\* The table the dataset under construction was read from
SourceTable == files[IF train THEN "train.csv" ELSE "val.csv"]
SourceItem(inst) == SourceTable[inst.row + 1]

\* The constructor has set the fields of the dataset
Constructed == pc \in {"loop", "ready"} \/ (pc = "error" /\ err # "KeyError")

\* The label encoding as the specification states it
Encoding(mnli, l) ==
    IF mnli
    THEN CASE l = "entailment" -> 0 [] l = "contradiction" -> 1 [] l = "neutral" -> 2
    ELSE CASE l = "entailment" -> 1 [] l = "contradiction" -> -1
EncodingDomain(mnli) ==
    IF mnli THEN {"entailment", "contradiction", "neutral"}
    ELSE {"entailment", "contradiction"}

Present(x) == x.kind # "nan"
Tokenizable(x) == x.kind = "str"
\* A valid row: both sentences present (and texts the tokenizer accepts), label
\* in the domain of the active encoding
ValidItem(it, mnli) ==
    /\ Tokenizable(it.sentence1) /\ Tokenizable(it.sentence2)
    /\ it.label \in EncodingDomain(mnli)

Produced == Range(out) \cup Range(data)

(* ------------------------------- C1 ----------------------------------- *)
\* C1: for every valid row and both materialization strategies, the label of
\* the resulting Instance is the configured encoding of the row's label: every
\* Instance get_instances yields carries it, and __getitem__ on a lazy dataset
\* returns, for a valid row, an Instance that carries it.
C1_LabelIsEncoding ==
    Constructed =>
      /\ \A inst \in Produced :
            ValidItem(SourceItem(inst), bert_mnli)
               => inst.label = Encoding(bert_mnli, SourceItem(inst).label)
      /\ (pc = "ready" /\ ~in_memory /\ idx # <<>> /\ InRange(Len(frame), idx[1])
            /\ ValidItem(frame[Position(Len(frame), idx[1]) + 1][2], bert_mnli))
           => /\ err = "none"
              /\ item.label =
                    Encoding(bert_mnli, frame[Position(Len(frame), idx[1]) + 1][2].label)

(* ------------------------------- C2 ----------------------------------- *)
NonNeutral == {i \in 1..Len(SourceTable) : SourceTable[i].label # "neutral"}

\* C2: in signed mode the neutral rows are gone before get_instances iterates:
\* the rows it iterates hold no neutral row, no Instance comes from a neutral
\* row or carries the neutral code, the count of "neutral" is 0 throughout the
\* pass, and the dataset length counts no neutral row (eager and lazy).
C2_NoNeutralInSignedMode ==
    (Constructed /\ ~bert_mnli) =>
      /\ \A i \in 1..Len(rows) : rows[i][2].label # "neutral"
      /\ \A i \in 1..Len(frame) : frame[i][2].label # "neutral"
      /\ \A inst \in Produced \cup (IF item.row >= 0 THEN {item} ELSE {}) :
            /\ SourceItem(inst).label # "neutral"
            /\ inst.label # label_factory[StrKey("neutral")]
      /\ weights # NoWeights => weights[StrKey("neutral")] = 0
      /\ pc = "ready" =>
            /\ DatasetLen(materialized, frame, data) <= Cardinality(NonNeutral)
            /\ ~in_memory => DatasetLen(materialized, frame, data) = Cardinality(NonNeutral)

C2_Witness ==
    /\ ~bert_mnli /\ pc = "ready" /\ in_memory
    /\ \E i \in 1..Len(SourceTable) : SourceTable[i].label = "neutral"
    /\ Len(data) > 0
    /\ Len(data) = Cardinality(NonNeutral)

(* ------------------------------- C3 ----------------------------------- *)
\* C3: a tokenizer failure on one sentence is caught and the row is skipped:
\* the constructor's pass never ends in an exception on such a row, it goes on
\* with the following rows.
C3_TokenizerFailureSkipsRow ==
    (by_init /\ pos >= 1 /\ pos <= Len(rows)
       /\ Present(rows[pos][2].sentence1) /\ Present(rows[pos][2].sentence2)
       /\ (TokenizerRaises(rows[pos][2].sentence1) \/ TokenizerRaises(rows[pos][2].sentence2)))
      => pc # "error"

(* ------------------------------- C4 ----------------------------------- *)
\* C4: NLIDataModule on a configuration lacking train_data_path or
\* val_data_path ends in ValueError whatever the other options are, with no
\* dataset attribute set and no file read.
C4_MissingPathIsValueError ==
    (dm.pc = "done"
       /\ ("train_data_path" \notin config.keys \/ "val_data_path" \notin config.keys))
      => /\ dm.err = "ValueError"
         /\ dm.has = {}
         /\ dm.reads = 0

C4_Witness ==
    /\ dm.pc = "done"
    /\ "train_data_path" \in config.keys
    /\ "val_data_path" \notin config.keys
    /\ "eval_only" \in config.keys /\ config.eval_only
    /\ "test_data_path" \in config.keys /\ config.test_data_path # ""
    /\ dm.err = "ValueError"

(* ------------------------------- C5 ----------------------------------- *)
\* The 0-based positions of the source table, in file order
AllIdx == [i \in 1..Len(SourceTable) |-> i - 1]
RowsOf(insts) == [j \in 1..Len(insts) |-> insts[j].row]
TokenLen(sentence) == Len(TokenizeWords(sentence.words))

EagerWithN == pc = "ready" /\ materialized /\ ~n_samples.none /\ n_samples.n > 0

\* C5 as stated: an eager dataset built with n_samples = N > 0 from a table
\* holding at least N valid rows holds exactly the Instances of the first N
\* valid rows, in file order.
C5_FirstNValidRows ==
    EagerWithN =>
      LET IsValid(i) == ValidItem(SourceTable[i + 1], bert_mnli)
          valid == SelectSeq(AllIdx, IsValid)
      IN  Len(valid) >= n_samples.n => RowsOf(data) = SubSeq(valid, 1, n_samples.n)

\* The rows get_instances accepts: both sentences present, label of the
\* encoding and, in 3-way mode, sentence1 short enough
Accepted(it, mnli, ml) ==
    /\ Present(it.sentence1) /\ Present(it.sentence2)
    /\ it.label \in Labels
    /\ mnli => TokenLen(it.sentence1) + 2 < ml

\* The first N rows of the table (in signed mode: of the table without its
\* neutral rows)
FirstN ==
    LET Kept(i) == bert_mnli \/ SourceTable[i + 1].label # "neutral"
    IN  Slice(SelectSeq(AllIdx, Kept), n_samples.n)

\* C5 (amended): an eager dataset built with n_samples = N > 0 holds exactly
\* the Instances of the accepted rows among the FIRST N ROWS of the table, in
\* file order: its length is at most N, and is N exactly when the table has N
\* rows and the first N are all accepted.
C5_AcceptedAmongFirstNRows ==
    EagerWithN =>
      LET Acc(i) == Accepted(SourceTable[i + 1], bert_mnli, max_length)
      IN  /\ RowsOf(data) = SelectSeq(FirstN, Acc)
          /\ Len(data) <= n_samples.n
          /\ Len(data) = n_samples.n
               <=> (Len(FirstN) = n_samples.n /\ \A j \in 1..Len(FirstN) : Acc(FirstN[j]))

C5_Witness ==
    /\ EagerWithN
    /\ Len(SourceTable) > n_samples.n
    /\ Len(data) < n_samples.n
    /\ \E i \in (n_samples.n + 1)..Len(SourceTable) :
          /\ ValidItem(SourceTable[i], bert_mnli)
          /\ Accepted(SourceTable[i], bert_mnli, max_length)

(* ------------------------------- C6 ----------------------------------- *)
Returned == IF item.row >= 0 THEN {item} ELSE {}

\* C6 as stated: the mode selects the shape: pair form in signed mode,
\* concatenated form in 3-way mode, for get_instances and for __getitem__.
C6_ShapeFollowsMode ==
    Constructed =>
      \A inst \in Produced \cup Returned :
         inst.form = (IF bert_mnli THEN "concat" ELSE "pair")

\* C6 (amended): with concat_before_return False, every Instance get_instances
\* yields is in pair form in both modes, each batch truncated to max_length, and
\* so is every Instance __getitem__ returns from an eager dataset or from a lazy
\* dataset in signed mode.
C6_GetInstancesYieldsPairs ==
    Constructed =>
      /\ \A inst \in Produced :
            /\ inst.form = "pair"
            /\ inst.t1.len = Len(inst.t1.x) /\ inst.t1.len <= max_length
            /\ inst.t2.len = Len(inst.t2.x) /\ inst.t2.len <= max_length
      /\ (in_memory \/ ~bert_mnli) => \A inst \in Returned : inst.form = "pair"

C6_Witness ==
    /\ pc = "ready" /\ materialized /\ bert_mnli
    /\ Len(data) > 1
    /\ item.row >= 0

(* ------------------------------- C7 ----------------------------------- *)
Yielded(i) == \E j \in 1..Len(out) : out[j].row = i
ReachesLengthCheck(it) ==
    /\ Tokenizable(it.sentence1) /\ Tokenizable(it.sentence2)
    /\ it.label \in Labels
YieldedWith(k) == {j \in 1..Len(out) : out[j].label = label_factory[k]}

\* C7: in 3-way mode a row that reaches the length check is rejected exactly
\* when the untruncated token length of sentence1 plus 2 is >= max_length; a
\* rejected row yields nothing and leaves its label's count as it was; every
\* Instance yielded has len(sentence1 tokens) + 2 < max_length.
C7_RejectedIffSentence1TooLong ==
    (by_init /\ bert_mnli /\ pc \in {"loop", "ready", "error"}) =>
      /\ \A i \in 1..(pos - 1) :
            ReachesLengthCheck(rows[i][2]) =>
               (Yielded(rows[i][1]) <=> ~(TokenLen(rows[i][2].sentence1) + 2 >= max_length))
      /\ \A inst \in Range(out) : TokenLen(SourceItem(inst).sentence1) + 2 < max_length
      /\ pc # "error" =>
            \A k \in DOMAIN weights : weights[k] = Cardinality(YieldedWith(k))

C7_Witness ==
    /\ by_init /\ bert_mnli /\ pc = "ready"
    /\ \E i \in 1..Len(rows) :
          /\ ReachesLengthCheck(rows[i][2])
          /\ TokenLen(rows[i][2].sentence1) + 2 = max_length
          /\ ~Yielded(rows[i][1])
    /\ \E i \in 1..Len(rows) :
          /\ TokenLen(rows[i][2].sentence1) + 2 = max_length - 1
          /\ TokenLen(rows[i][2].sentence2) >= max_length
          /\ Yielded(rows[i][1])

(* ------------------------------- C9 ----------------------------------- *)
Skipped(it) ==
    ~Present(it.sentence1) \/ ~Present(it.sentence2) \/ it.label \notin Labels

RECURSIVE SumOver(_, _)
SumOver(w, ks) ==
    IF ks = {} THEN 0
    ELSE LET k == CHOOSE x \in ks : TRUE IN w[k] + SumOver(w, ks \ {k})

\* C9: at every point of an eager pass weights[l] is the number of Instances
\* yielded so far with label l, for every label l of the encoding; a NaN row
\* or a row with an unknown label yields nothing and never stops the pass;
\* after construction the counts sum to the dataset length; no count is
\* negative.
C9_WeightsCountYielded ==
    /\ (by_init /\ pc \in {"loop", "ready"}) =>
          /\ DOMAIN weights = DOMAIN label_factory
          /\ \A k \in DOMAIN weights :
                weights[k] = Cardinality(YieldedWith(k)) /\ weights[k] >= 0
          /\ \A i \in 1..(pos - 1) : Skipped(rows[i][2]) => ~Yielded(rows[i][1])
          /\ pc = "ready" =>
                SumOver(weights, DOMAIN weights) = DatasetLen(materialized, frame, data)
    /\ (by_init /\ pc = "error") => ~Skipped(rows[pos][2])

C9_Witness ==
    /\ by_init /\ pc = "ready" /\ bert_mnli
    /\ Len(data) >= 1
    /\ \E i \in 1..Len(rows) : Skipped(rows[i][2])
    /\ \E i \in 1..Len(rows) :
          ReachesLengthCheck(rows[i][2]) /\ TokenLen(rows[i][2].sentence1) + 2 >= max_length

(* ------------------------------- C10 ---------------------------------- *)
EagerTwin ==
    NewDataset([config EXCEPT !.in_memory = TRUE, !.keys = @ \cup {"in_memory"}],
               files, train)

\* C10: a lazy dataset has the length of the eager dataset built from the same
\* table and configuration, and its item i is, without error, an Instance of
\* the same row, label and shape as the eager dataset's item i.
C10_LazyEqualsEager ==
    (pc = "ready" /\ ~in_memory /\ EagerTwin.err = "none") =>
      /\ DatasetLen(materialized, frame, data) = Len(EagerTwin.val.data)
      /\ (idx # <<>> /\ InRange(Len(EagerTwin.val.data), idx[1])) =>
            LET twin == EagerTwin.val.data[Position(Len(EagerTwin.val.data), idx[1]) + 1]
            IN  /\ err = "none"
                /\ item.row = twin.row
                /\ item.label = twin.label
                /\ item.form = twin.form

(* ------------------------------- C8 ----------------------------------- *)
SameRows(a, b) == Len(a) = Len(b) /\ Range(a) = Range(b)

\* The rows of the loop are the first N of the (possibly shuffled) list,
\* sorted by the size of sentence1 when grouping is requested
ShuffleTakeSort ==
    LET firstN == IF Truthy(n_samples) THEN Slice(shuffled, n_samples.n) ELSE shuffled
    IN  /\ SameRows(shuffled, frame)
        /\ ~did_shuffle => shuffled = frame
        /\ IF group_by_size
           THEN /\ SameRows(rows, firstN)
                /\ \A i, j \in 1..Len(rows) :
                      i < j => sorted_criterion(rows[i]) <= sorted_criterion(rows[j])
           ELSE rows = firstN

InCalledPass == pc = "loop" /\ ~by_init

\* C8 as stated: the steps run in the order shuffle, take-first-N, sort, and a
\* requested shuffle is skipped when sampling and grouping are both active and
\* performed for every other combination.
C8_ShuffleSkippedWhenSamplingAndGrouping ==
    InCalledPass =>
      /\ ShuffleTakeSort
      /\ shuffle => (did_shuffle <=> ~(Truthy(n_samples) /\ group_by_size))

\* C8 (amended): the steps run in the order shuffle, take-first-N, sort, and a
\* requested shuffle is skipped when grouping is active and NO sample count is
\* requested, and performed for every other combination (also when sampling
\* and grouping are both active); without a request there is no shuffle.
C8_ShuffleSkippedWhenGroupingWithoutSampling ==
    InCalledPass =>
      /\ ShuffleTakeSort
      /\ did_shuffle <=> (shuffle /\ ~(group_by_size /\ ~Truthy(n_samples)))

C8_Witness ==
    /\ InCalledPass
    /\ shuffle /\ group_by_size /\ Truthy(n_samples)
    /\ did_shuffle /\ shuffled # frame
    /\ Len(frame) > n_samples.n
    /\ rows # Slice(shuffled, n_samples.n)

====
